---- MODULE Spec2Model ----
(***************************************************************************)
(* CreditRiskModel (src/src/credit_risk_model.py): synthetic portfolio     *)
(* generation, per-segment PD calibration, scoring and stress testing.     *)
(*                                                                         *)
(* Floating-point columns are modelled as exact rationals <<num, den>>     *)
(* (den > 0, lowest terms); only finite values are modelled.  Tables are   *)
(* records [columns, rows] whose rows are functions from column name to    *)
(* value.  Two instances built from the same seed are driven in lock-step  *)
(* through the same calls; the wall clock may advance between the call on  *)
(* the first and the same call on the second.                              *)
(***************************************************************************)
EXTENDS Integers, Sequences, FiniteSets, TLC

\* ------------------------------------------------------------------ bounds
MaxAccounts == 2
MaxPeriods == 2
MaxRows == 2
MaxSkew == 1
RngModulus == 8

\* --------------------------------------------------------------- rationals
Abs(n) == IF n < 0 THEN -n ELSE n

RECURSIVE Gcd(_, _)
Gcd(a, b) == IF b = 0 THEN a ELSE Gcd(b, a % b)

\* n/d (d # 0) divided through by g, the denominator made positive
Over(n, d, g) == IF d < 0 THEN <<(-n) \div g, (-d) \div g>> ELSE <<n \div g, d \div g>>
Rat(n, d) == Over(n, d, Gcd(Abs(n), Abs(d)))

RInt(n) == <<n, 1>>
RNeg(x) == <<-x[1], x[2]>>

\* x + y over the least common denominator, g = gcd of the denominators
AddOver(x, y, g) == Rat(x[1] * (y[2] \div g) + y[1] * (x[2] \div g), (x[2] \div g) * y[2])
RAdd(x, y) == AddOver(x, y, Gcd(x[2], y[2]))

\* x * y, cancelling a = gcd(x[1], y[2]) and b = gcd(y[1], x[2]) first
MulOver(x, y, a, b) == Rat((x[1] \div a) * (y[1] \div b), (x[2] \div b) * (y[2] \div a))
RMul(x, y) == MulOver(x, y, Gcd(Abs(x[1]), y[2]), Gcd(Abs(y[1]), x[2]))

\* x / y for y # 0
RDiv(x, y) == RMul(x, IF y[1] < 0 THEN <<-y[2], -y[1]>> ELSE <<y[2], y[1]>>)

\* compared over the least common denominator
LtOver(x, y, g) == x[1] * (y[2] \div g) < y[1] * (x[2] \div g)
RLt(x, y) == LtOver(x, y, Gcd(x[2], y[2]))
RLe(x, y) == ~RLt(y, x)
RMax(x, y) == IF RLt(x, y) THEN y ELSE x
RMin(x, y) == IF RLt(y, x) THEN y ELSE x

RECURSIVE RSum(_)
RSum(s) == IF s = << >> THEN RInt(0) ELSE RAdd(Head(s), RSum(Tail(s)))

\* ----------------------------------------------------------------- strings
\* Python compares str by code point; the code points of the names in use.
CodePoints(s) ==
    CASE s = "account_id"   -> <<97, 99, 99, 111, 117, 110, 116, 95, 105, 100>>
      [] s = "as_of_date"   -> <<97, 115, 95, 111, 102, 95, 100, 97, 116, 101>>
      [] s = "coupon"       -> <<99, 111, 117, 112, 111, 110>>
      [] s = "default_flag" -> <<100, 101, 102, 97, 117, 108, 116, 95, 102, 108, 97, 103>>
      [] s = "ead"          -> <<101, 97, 100>>
      [] s = "lgd"          -> <<108, 103, 100>>
      [] s = "pd_estimate"  -> <<112, 100, 95, 101, 115, 116, 105, 109, 97, 116, 101>>
      [] s = "segment"      -> <<115, 101, 103, 109, 101, 110, 116>>
      [] s = "term_months"  -> <<116, 101, 114, 109, 95, 109, 111, 110, 116, 104, 115>>
      [] s = "Prime"        -> <<80, 114, 105, 109, 101>>
      [] s = "Near-Prime"   -> <<78, 101, 97, 114, 45, 80, 114, 105, 109, 101>>
      [] s = "Subprime"     -> <<83, 117, 98, 112, 114, 105, 109, 101>>
      [] s = "Other"        -> <<79, 116, 104, 101, 114>>

RECURSIVE SeqLess(_, _)
SeqLess(a, b) ==
    IF a = << >> THEN b # << >>
    ELSE IF b = << >> THEN FALSE
    ELSE IF Head(a) # Head(b) THEN Head(a) < Head(b)
    ELSE SeqLess(Tail(a), Tail(b))

StrLess(a, b) == SeqLess(CodePoints(a), CodePoints(b))

\* the least string of a non-empty set
Least(S) == CHOOSE x \in S : \A y \in S \ {x} : StrLess(x, y)

\* sorted(S) for a set of strings
RECURSIVE Sorted(_)
Sorted(S) == IF S = {} THEN << >> ELSE <<Least(S)>> \o Sorted(S \ {Least(S)})

Range(s) == {s[k] : k \in DOMAIN s}

\* ------------------------------------------------------------ configuration
seed == 42
segments == <<"Prime", "Near-Prime", "Subprime">>
base_pd == ("Prime" :> Rat(1, 200)) @@ ("Near-Prime" :> Rat(3, 200)) @@ ("Subprime" :> Rat(9, 200))
pd_floor == Rat(1, 2000)
pd_cap == Rat(2, 5)
lgd_range == <<Rat(1, 4), Rat(13, 20)>>
ead_range == <<1000, 25000>>
coupon_range == <<Rat(1, 40), Rat(7, 40)>>
term_range_months == <<12, 72>>
period_length_days == 30

\* mutant: the upper bound is not applied
ClipLowerOnly(x, lo, hi) == RMax(x, lo)

\* np.clip(x, lo, hi) = minimum(maximum(x, lo), hi)
Clip(x, lo, hi) == RMin(RMax(x, lo), hi)

\* ------------------------------------------------------------------ values
\* A call returns a table or raises.
NoError == [type |-> "", msg |-> "", missing |-> << >>]
Table(cols, rows) == [status |-> "ok", columns |-> cols, rows |-> rows, error |-> NoError]
Raised(type, msg, missing) ==
    [status |-> "raised", columns |-> << >>, rows |-> << >>,
     error |-> [type |-> type, msg |-> msg, missing |-> missing]]
NoResult == [status |-> "none", columns |-> << >>, rows |-> << >>, error |-> NoError]

\* Optional[T]: {} is None, {v} is v.
None == {}
Some(v) == {v}
OrElse(opt, default) == IF opt = None THEN default ELSE CHOOSE v \in opt : TRUE

\* --------------------------------------------------------------- generator
\* The seeded bit generator: a full-period congruential step on a small state.
default_rng(s) == s % RngModulus
NextState(s) == (5 * s + 3) % RngModulus

RECURSIVE Advance(_, _)
Advance(s, k) == IF k = 0 THEN s ELSE Advance(NextState(s), k - 1)

\* the k-th raw variate drawn from state s, and the same as a float in [0, 1)
Draw(s, k) == Advance(s, k)
Unit(v) == Rat(v, RngModulus)

\* Generator.integers(low, high): uniform integer in [low, high)
Integers(low, high, v) == low + ((v * (high - low)) \div RngModulus)
\* Generator.uniform(low, high)
Uniform(low, high, v) == RAdd(low, RMul(RAdd(high, RNeg(low)), Unit(v)))
\* Generator.normal(loc, scale): loc + scale * z, z a standard normal deviate
StdNormal(v) == 2 * v - RngModulus + 1
Normal(loc, scale, v) == RAdd(loc, RMul(scale, RInt(StdNormal(v))))
\* Generator.binomial(n=1, p)
Bernoulli(p, v) == RLt(Unit(v), p)

_segment_probs ==
    IF Len(segments) # 3
    THEN [k \in 1..Len(segments) |-> Rat(1, Len(segments))]
    ELSE <<Rat(9, 20), Rat(7, 20), Rat(1, 5)>>

\* Generator.choice(a, p=p): searchsorted(cumsum(p), u, side="right")
Choice(a, p, v) ==
    a[Cardinality({k \in 1..Len(p) : RLe(RSum(SubSeq(p, 1, k)), Unit(v))}) + 1]

\* f"{i:06d}": decimal digits of i, zero-padded on the left to width 6
RECURSIVE Digits(_)
Digits(i) == IF i < 10 THEN <<i>> ELSE Digits(i \div 10) \o <<i % 10>>

ZeroPad(d) == IF Len(d) >= 6 THEN d ELSE [k \in 1..(6 - Len(d)) |-> 0] \o d
Format06d(i) == ZeroPad(Digits(i))

AccountId(i) == [prefix |-> "ACC-", digits |-> Format06d(i)]

BaselineColumns ==
    <<"account_id", "as_of_date", "segment", "ead", "lgd", "coupon", "term_months", "pd_estimate">>
HistoricalColumns == BaselineColumns \o <<"default_flag", "realized_lgd", "loss", "period">>

\* one row of the snapshot, from the values drawn for it
BaselineRow(i, date, segment, ead, lgd, coupon, term, noise) ==
    [account_id |-> AccountId(i),
     as_of_date |-> date,
     segment |-> segment,
     ead |-> RInt(ead),
     lgd |-> lgd,
     coupon |-> coupon,
     term_months |-> term,
     pd_estimate |-> Clip(RMul(base_pd[segment], noise), pd_floor, pd_cap)]

\* generate_baseline_data(num_accounts, as_of_date) from generator state s, with
\* the wall clock at today: the table and the generator state afterwards.  The
\* columns are drawn one after the other, num_accounts values each.
generate_baseline_data(s, num_accounts, as_of_date, today) ==
    [ret |-> Table(BaselineColumns,
                   [k \in 1..num_accounts |->
                       BaselineRow(k - 1, OrElse(as_of_date, today),
                           Choice(segments, _segment_probs, Draw(s, k)),
                           Integers(ead_range[1], ead_range[2] + 1, Draw(s, num_accounts + k)),
                           Uniform(lgd_range[1], lgd_range[2], Draw(s, 2 * num_accounts + k)),
                           Uniform(coupon_range[1], coupon_range[2], Draw(s, 3 * num_accounts + k)),
                           Integers(term_range_months[1], term_range_months[2] + 1,
                                    Draw(s, 4 * num_accounts + k)),
                           Normal(RInt(1), Rat(3, 20), Draw(s, 5 * num_accounts + k)))]),
     rng |-> Advance(s, 6 * num_accounts)]

\* snap.assign(...): a snapshot row with its default flag, realized LGD and loss
HistoricalRow(r, default_flag, realized_lgd, period) ==
    r @@ [default_flag |-> default_flag,
          realized_lgd |-> realized_lgd,
          loss |-> RMul(RMul(RInt(IF default_flag THEN 1 ELSE 0), r.ead), realized_lgd),
          period |-> period]

\* the rest of the loop body for period i (0-based), given the snapshot `base`
SnapshotOf(base, i, n) ==
    [rows |-> [k \in 1..n |->
                  HistoricalRow(base.ret.rows[k],
                                Bernoulli(base.ret.rows[k].pd_estimate, Draw(base.rng, k)),
                                Uniform(lgd_range[1], lgd_range[2], Draw(base.rng, n + k)),
                                i + 1)],
     rng |-> Advance(base.rng, 2 * n)]

\* one pass of the loop body of generate_historical_data: period i (0-based)
HistoricalSnapshot(s, i, accounts_per_period, start_date) ==
    SnapshotOf(generate_baseline_data(s, accounts_per_period,
                                      Some(start_date + i * period_length_days), 0),
               i, accounts_per_period)

\* records.append(snap)
Appended(before, snap) == [rows |-> before.rows \o snap.rows, rng |-> snap.rng]
NextRecords(before, i, accounts_per_period, start_date) ==
    Appended(before, HistoricalSnapshot(before.rng, i, accounts_per_period, start_date))

\* the list `records` and the generator state after the first `count` periods
RECURSIVE HistoricalRecords(_, _, _, _)
HistoricalRecords(s, count, accounts_per_period, start_date) ==
    IF count = 0 THEN [rows |-> << >>, rng |-> s]
    ELSE NextRecords(HistoricalRecords(s, count - 1, accounts_per_period, start_date),
                     count - 1, accounts_per_period, start_date)

\* pd.concat(records, ignore_index=True): raises on an empty list
Concat(count, cols, rows) ==
    IF count = 0 THEN Raised("ValueError", "No objects to concatenate", << >>)
    ELSE Table(cols, rows)

Concatenated(periods, recs) ==
    [ret |-> Concat(periods, HistoricalColumns, recs.rows), rng |-> recs.rng]

generate_historical_data(s, periods, accounts_per_period, start_date, today) ==
    Concatenated(periods,
                 HistoricalRecords(s, periods, accounts_per_period,
                                   OrElse(start_date, today - periods * period_length_days)))

\* ------------------------------------------------------------- calibration
\* the ValueError of _require_columns for the names `missing`, as listed
MissingColumns(missing) == Raised("ValueError", "DataFrame missing required columns", missing)

\* mutant: the missing names are listed in descending order
RequireColumnsUnsorted(frame, cols) ==
    IF cols \ Range(frame.columns) # {}
    THEN MissingColumns([k \in 1..Cardinality(cols \ Range(frame.columns)) |->
                            Sorted(cols \ Range(frame.columns))
                                [Cardinality(cols \ Range(frame.columns)) + 1 - k]])
    ELSE NoResult

\* _require_columns(frame, cols): what it raises, or NoResult when it returns
_require_columns(frame, cols) ==
    IF cols \ Range(frame.columns) # {}
    THEN MissingColumns(Sorted(cols \ Range(frame.columns)))
    ELSE NoResult

\* Series.mean() of a float column and of a boolean column (non-empty)
Mean(xs) == RDiv(RSum(xs), RInt(Len(xs)))
MeanBool(bs) == Rat(Cardinality({k \in DOMAIN bs : bs[k]}), Len(bs))

\* mutant: a zero expected rate is not special-cased, 0/0 taken as 0
ScalerZeroAsFloor(observed_rate, expected_rate) ==
    IF expected_rate = RInt(0) THEN Clip(RInt(0), Rat(1, 4), RInt(4))
    ELSE Clip(RDiv(observed_rate, expected_rate), Rat(1, 4), RInt(4))

\* mutant: the ratio is stored without clipping it
ScalerUnclipped(observed_rate, expected_rate) ==
    IF expected_rate = RInt(0) THEN RInt(1)
    ELSE RDiv(observed_rate, expected_rate)

\* the scaler of one segment from its observed and expected rates
Scaler(observed_rate, expected_rate) ==
    IF expected_rate = RInt(0) THEN RInt(1)
    ELSE Clip(RDiv(observed_rate, expected_rate), Rat(1, 4), RInt(4))

\* one row of the calibration summary
SummaryRow(segment, observed_rate, expected_rate) ==
    [segment |-> segment,
     expected_pd |-> expected_rate,
     observed_default_rate |-> observed_rate,
     pd_scaler |-> Scaler(observed_rate, expected_rate)]

\* the summary row of the group `frame` of `segment`
CalibrationRow(segment, frame) ==
    SummaryRow(segment,
               MeanBool([k \in DOMAIN frame |-> frame[k]["default_flag"]]),
               Mean([k \in DOMAIN frame |-> frame[k]["pd_estimate"]]))

\* history.groupby("segment"): the groups, in sorted key order
GroupKeys(history) == Sorted({history.rows[k]["segment"] : k \in DOMAIN history.rows})
Group(history, segment) == SelectSeq(history.rows, LAMBDA r : r["segment"] = segment)

CalibrationColumns == <<"segment", "expected_pd", "observed_default_rate", "pd_scaler">>

\* the summary row of segment seg
RowOf(calibration, seg) ==
    calibration[CHOOSE k \in DOMAIN calibration : calibration[k].segment = seg]

Seen(calibration) == {calibration[k].segment : k \in DOMAIN calibration}

\* mutant: the mapping is rebuilt, entries of absent segments back at 1.0
StoreScalersRebuilt(scalers, calibration) ==
    [seg \in DOMAIN scalers \cup Seen(calibration) |->
        IF seg \in Seen(calibration) THEN RowOf(calibration, seg).pd_scaler ELSE RInt(1)]

\* self.pd_scalers after the loop has stored every row's scaler
StoreScalers(scalers, calibration) ==
    [seg \in DOMAIN scalers \cup Seen(calibration) |->
        IF seg \in Seen(calibration) THEN RowOf(calibration, seg).pd_scaler ELSE scalers[seg]]

\* pd.DataFrame(calibration): a list of no dicts gives a table of no columns
CalibrationFrame(calibration) ==
    Table(IF calibration = << >> THEN << >> ELSE CalibrationColumns, calibration)

\* the list `calibration`: one summary row per group, in key order
CalibrationOver(history, keys) ==
    [k \in DOMAIN keys |-> CalibrationRow(keys[k], Group(history, keys[k]))]
Calibration(history) == CalibrationOver(history, GroupKeys(history))

\* the return value and self.pd_scalers once the columns have been checked
Calibrated(scalers, calibration) ==
    [ret |-> CalibrationFrame(calibration), pd_scalers |-> StoreScalers(scalers, calibration)]

\* what calibrate_pd does after _require_columns gave `check`
AfterCheck(check, scalers, history) ==
    IF check.status = "raised" THEN [ret |-> check, pd_scalers |-> scalers]
    ELSE Calibrated(scalers, Calibration(history))

\* mutant: entries of the segments in the table are reset before the columns
\* are checked
CalibratePdStoreFirst(scalers, history) ==
    AfterCheck(_require_columns(history, {"segment", "pd_estimate", "default_flag"}),
               [seg \in DOMAIN scalers |->
                   IF /\ "segment" \in Range(history.columns)
                      /\ \E k \in DOMAIN history.rows : history.rows[k]["segment"] = seg
                   THEN RInt(1) ELSE scalers[seg]],
               history)

calibrate_pd(scalers, history) ==
    AfterCheck(_require_columns(history, {"segment", "pd_estimate", "default_flag"}),
               scalers, history)

\* ------------------------------------------------------------------ scoring
\* mutant: a segment without an entry gets 0.0
ScalerForZero(scalers, seg) == IF seg \in DOMAIN scalers THEN scalers[seg] ELSE RInt(0)

\* self.pd_scalers.get(seg, 1.0)
ScalerFor(scalers, seg) == IF seg \in DOMAIN scalers THEN scalers[seg] ELSE RInt(1)

pd_calibrated(scalers, seg, pd_est) ==
    Clip(RMul(pd_est, ScalerFor(scalers, seg)), pd_floor, pd_cap)

\* frame[name] = values: a new column goes last, an existing one is overwritten
WithColumn(cols, name) == IF name \in Range(cols) THEN cols ELSE cols \o <<name>>

\* a row with its pd_calibrated p and its expected_loss
ScoredRow(r, p) ==
    [pd_calibrated |-> p, expected_loss |-> RMul(RMul(r["ead"], r["lgd"]), p)] @@ r

\* the assignments of score_portfolio, once the columns have been checked
Scored(scalers, portfolio) ==
    Table(WithColumn(WithColumn(portfolio.columns, "pd_calibrated"), "expected_loss"),
          [k \in DOMAIN portfolio.rows |->
              ScoredRow(portfolio.rows[k],
                        pd_calibrated(scalers, portfolio.rows[k]["segment"],
                                      portfolio.rows[k]["pd_estimate"]))])

ScoreAfter(check, scalers, portfolio) ==
    IF check.status = "raised" THEN check ELSE Scored(scalers, portfolio)

score_portfolio(scalers, portfolio) ==
    ScoreAfter(_require_columns(portfolio, {"account_id", "segment", "ead", "lgd", "pd_estimate"}),
               scalers, portfolio)

\* ------------------------------------------------------------------- stress
pd_stressed(pd_cal, pd_multiplier, shock) ==
    Clip(RAdd(RMul(pd_cal, pd_multiplier), RMul(shock, pd_cal)), pd_floor, pd_cap)

lgd_stressed(lgd, lgd_shift) == Clip(RAdd(lgd, lgd_shift), RInt(0), RInt(1))

\* a scored row with its stressed PD p, stressed LGD l and stressed loss
StressedRow(r, p, l) ==
    [pd_stressed |-> p, lgd_stressed |-> l,
     expected_loss_stressed |-> RMul(RMul(r["ead"], l), p)] @@ r

StressedColumns(cols) ==
    WithColumn(WithColumn(WithColumn(cols, "pd_stressed"), "lgd_stressed"),
               "expected_loss_stressed")

\* mutant: the stressed PD starts from pd_estimate, not from pd_calibrated
StressedFromEstimate(scored, pd_multiplier, lgd_shift, shock) ==
    IF scored.status = "raised" THEN scored
    ELSE Table(StressedColumns(scored.columns),
               [k \in DOMAIN scored.rows |->
                   StressedRow(scored.rows[k],
                               pd_stressed(scored.rows[k]["pd_estimate"], pd_multiplier, shock),
                               lgd_stressed(scored.rows[k]["lgd"], lgd_shift))])

\* the assignments of run_stress_scenario on `scored`, the table score_portfolio
\* returned (or what it raised)
Stressed(scored, pd_multiplier, lgd_shift, shock) ==
    IF scored.status = "raised" THEN scored
    ELSE Table(StressedColumns(scored.columns),
               [k \in DOMAIN scored.rows |->
                   StressedRow(scored.rows[k],
                               pd_stressed(scored.rows[k]["pd_calibrated"], pd_multiplier, shock),
                               lgd_stressed(scored.rows[k]["lgd"], lgd_shift))])

run_stress_scenario(scalers, portfolio, pd_multiplier, lgd_shift, macro_shock) ==
    Stressed(score_portfolio(scalers, portfolio), pd_multiplier, lgd_shift,
             OrElse(macro_shock, RInt(0)))

\* ------------------------------------------------------------ caller inputs
\* Tables a caller builds by hand: panels for calibration, portfolios for
\* scoring, and tables that lack some of the columns.
PanelColumns == <<"segment", "pd_estimate", "default_flag">>
PortfolioColumns == <<"account_id", "segment", "ead", "lgd", "pd_estimate">>
CallerSegments == {"Prime", "Other"}
PdValues == {RInt(0), RInt(1)}
LgdValues == {Rat(1, 2), Rat(6, 5)}
Droppable == {"account_id", "pd_estimate", "default_flag"}

\* the other one of the caller's two segments
OtherOf(seg) == CHOOSE s \in CallerSegments : s # seg

\* n rows, segments alternating from seg1 and PDs from pd1; the first `defaults`
\* rows defaulted
Panel(n, seg1, pd1, defaults) ==
    Table(PanelColumns,
          [k \in 1..n |-> [segment |-> IF k % 2 = 1 THEN seg1 ELSE OtherOf(seg1),
                           pd_estimate |-> IF k % 2 = 1 THEN pd1
                                           ELSE CHOOSE pd \in PdValues : pd # pd1,
                           default_flag |-> k <= defaults]])

Portfolio(n, seg1, pd, lgd) ==
    Table(PortfolioColumns,
          [k \in 1..n |-> [account_id |-> AccountId(k - 1),
                           segment |-> IF k % 2 = 1 THEN seg1 ELSE OtherOf(seg1),
                           ead |-> RInt(1000),
                           lgd |-> lgd,
                           pd_estimate |-> pd]])

\* a one-row table holding every column but those in `drop`
Lacking(drop) ==
    LET full == [account_id |-> AccountId(0), segment |-> "Prime", ead |-> RInt(1000),
                 lgd |-> Rat(1, 2), pd_estimate |-> RInt(1), default_flag |-> TRUE]
        cols == SelectSeq(PortfolioColumns \o <<"default_flag">>, LAMBDA c : c \notin drop)
    IN  Table(cols, <<[c \in Range(cols) |-> full[c]]>>)

Panels ==
    {Panel(n, seg, pd, d) :
        n \in 0..MaxRows, seg \in CallerSegments, pd \in PdValues, d \in 0..MaxRows}
Portfolios ==
    {Portfolio(n, seg, pd, lgd) :
        n \in 0..MaxRows, seg \in CallerSegments, pd \in PdValues, lgd \in LgdValues}
LackingTables == {Lacking(drop) : drop \in (SUBSET Droppable) \ {{}}}

\* stress scenarios: neutral, the defaults, a severe upturn, a severe easing
Scenarios ==
    {[pd_multiplier |-> RInt(1), lgd_shift |-> RInt(0), macro_shock |-> Some(RInt(0))],
     [pd_multiplier |-> Rat(27, 20), lgd_shift |-> Rat(1, 20), macro_shock |-> None],
     [pd_multiplier |-> Rat(27, 20), lgd_shift |-> RInt(1), macro_shock |-> Some(RInt(1000))],
     [pd_multiplier |-> RInt(1), lgd_shift |-> RInt(-1), macro_shock |-> Some(RInt(-2))]}

DateArgs == {None, Some(period_length_days)}

\* ------------------------------------------------------------- state machine
Instances == {1, 2}

VARIABLES
    rng,         \* rng[i]: generator state of instance i
    pd_scalers,  \* pd_scalers[i]: segment -> scaler of instance i
    call,        \* the call in hand: its name and arguments ("" between calls)
    result,      \* result[i]: what the call returned or raised on instance i
    calibrated   \* segment -> pd_scaler of the latest summary row returned for it

vars == <<rng, pd_scalers, call, result, calibrated>>

NoFrame == Table(<< >>, << >>)
NoScenario == [pd_multiplier |-> RInt(0), lgd_shift |-> RInt(0), macro_shock |-> None]
Called(op, frame, n, periods, date, today, scenario) ==
    [op |-> op, frame |-> frame, num_accounts |-> n, periods |-> periods,
     date |-> date, today |-> today, scenario |-> scenario]
NoClock == [i \in Instances |-> 0]
NoCall == Called("", [i \in Instances |-> NoFrame], 0, 0, None, NoClock, NoScenario)

\* __post_init__ of every instance, all built with the same seed
Init ==
    /\ rng = [i \in Instances |-> default_rng(seed)]
    /\ pd_scalers = [i \in Instances |-> [seg \in Range(segments) |-> RInt(1)]]
    /\ call = NoCall
    /\ result = [i \in Instances |-> NoResult]
    /\ calibrated = << >>

\* the wall clock when the call reaches instance 1 and then instance 2
\* (day 0 is the day it reaches instance 1)
Clocks(I) ==
    {[i \in Instances |-> IF i \in I /\ i # 1 THEN later ELSE 0] : later \in 0..MaxSkew}

Idle == call.op = ""

Generated == call.op \in {"generate_baseline_data", "generate_historical_data"}

\* the table handed to each instance: between calls one built by hand, after
\* a generate call the table each instance got back from it
Frames(I, tables) ==
    IF Idle THEN {[i \in Instances |-> f] : f \in tables}
    ELSE IF Generated /\ \A i \in I : result[i].status = "ok"
         THEN {[i \in Instances |->
                   IF i \in I THEN Table(result[i].columns, result[i].rows) ELSE NoFrame]}
         ELSE {}

GenerateBaseline(I) ==
    /\ Idle
    /\ \E n \in 0..MaxAccounts, as_of_date \in DateArgs, today \in Clocks(I) :
        \E out \in {[i \in I |-> generate_baseline_data(rng[i], n, as_of_date, today[i])]} :
            /\ rng' = [i \in Instances |-> IF i \in I THEN out[i].rng ELSE rng[i]]
            /\ result' = [i \in Instances |-> IF i \in I THEN out[i].ret ELSE result[i]]
            /\ call' = Called("generate_baseline_data", [i \in Instances |-> NoFrame],
                              n, 0, as_of_date, today, NoScenario)
            /\ UNCHANGED <<pd_scalers, calibrated>>

GenerateHistorical(I) ==
    /\ Idle
    /\ \E periods \in 0..MaxPeriods, n \in 0..MaxAccounts, start_date \in DateArgs,
          today \in Clocks(I) :
        \E out \in {[i \in I |->
                         generate_historical_data(rng[i], periods, n, start_date, today[i])]} :
            /\ rng' = [i \in Instances |-> IF i \in I THEN out[i].rng ELSE rng[i]]
            /\ result' = [i \in Instances |-> IF i \in I THEN out[i].ret ELSE result[i]]
            /\ call' = Called("generate_historical_data", [i \in Instances |-> NoFrame],
                              n, periods, start_date, today, NoScenario)
            /\ UNCHANGED <<pd_scalers, calibrated>>

\* the summary rows a calibration returned, folded into `calibrated`
Latest(old, ret) ==
    LET seen == {ret.rows[k].segment : k \in DOMAIN ret.rows}
    IN  [seg \in DOMAIN old \cup seen |->
            IF seg \in seen
            THEN ret.rows[CHOOSE k \in DOMAIN ret.rows : ret.rows[k].segment = seg].pd_scaler
            ELSE old[seg]]

CalibratePd(I) ==
    \E history \in Frames(I, Panels \cup LackingTables) :
        \E out \in {[i \in I |-> calibrate_pd(pd_scalers[i], history[i])]} :
            /\ pd_scalers' = [i \in Instances |->
                                  IF i \in I THEN out[i].pd_scalers ELSE pd_scalers[i]]
            /\ result' = [i \in Instances |-> IF i \in I THEN out[i].ret ELSE result[i]]
            /\ call' = Called("calibrate_pd", history, 0, 0, None, NoClock, NoScenario)
            /\ calibrated' = IF out[1].ret.status = "ok" THEN Latest(calibrated, out[1].ret)
                             ELSE calibrated
            /\ UNCHANGED rng

ScorePortfolio(I) ==
    \E portfolio \in Frames(I, Portfolios \cup LackingTables) :
        /\ result' = [i \in Instances |->
                         IF i \in I THEN score_portfolio(pd_scalers[i], portfolio[i])
                         ELSE result[i]]
        /\ call' = Called("score_portfolio", portfolio, 0, 0, None, NoClock, NoScenario)
        /\ UNCHANGED <<rng, pd_scalers, calibrated>>

RunStressScenario(I) ==
    \E portfolio \in Frames(I, Portfolios \cup LackingTables), sc \in Scenarios :
        /\ result' = [i \in Instances |->
                         IF i \in I
                         THEN run_stress_scenario(pd_scalers[i], portfolio[i], sc.pd_multiplier,
                                                  sc.lgd_shift, sc.macro_shock)
                         ELSE result[i]]
        /\ call' = Called("run_stress_scenario", portfolio, 0, 0, None, NoClock, sc)
        /\ UNCHANGED <<rng, pd_scalers, calibrated>>

\* the caller lets go of what the call returned
Discard ==
    /\ ~Idle
    /\ call' = NoCall
    /\ result' = [i \in Instances |-> NoResult]
    /\ UNCHANGED <<rng, pd_scalers, calibrated>>

\* one instance in use
Next ==
    \/ GenerateBaseline({1})
    \/ GenerateHistorical({1})
    \/ CalibratePd({1})
    \/ ScorePortfolio({1})
    \/ RunStressScenario({1})
    \/ Discard

Spec == Init /\ [][Next]_vars

\* two instances built alike and driven through the same calls
NextPair ==
    \/ GenerateBaseline(Instances)
    \/ GenerateHistorical(Instances)
    \/ CalibratePd(Instances)
    \/ ScorePortfolio(Instances)
    \/ RunStressScenario(Instances)
    \/ Discard

SpecPair == Init /\ [][NextPair]_vars

\* ------------------------------------------------------------------ claims
Fresh == [seg \in Range(segments) |-> RInt(1)]
Rows(i) == result[i].rows
Returned(op) == call.op = op /\ result[1].status = "ok"
InPdBounds(x) == RLe(pd_floor, x) /\ RLe(x, pd_cap)
InUnit(x) == RLe(RInt(0), x) /\ RLe(x, RInt(1))

\* C1: every generated row has pd_estimate in [pd_floor, pd_cap]; every scored or
\* stressed row has pd_calibrated and pd_stressed in [pd_floor, pd_cap] and
\* lgd_stressed in [0, 1], whatever the calibration state and the scenario.
C1_Bounds ==
    result[1].status = "ok" =>
        \A k \in DOMAIN Rows(1) :
            LET r == Rows(1)[k]
            IN  /\ Generated => InPdBounds(r["pd_estimate"])
                /\ "pd_calibrated" \in DOMAIN r => InPdBounds(r["pd_calibrated"])
                /\ "pd_stressed" \in DOMAIN r => InPdBounds(r["pd_stressed"])
                /\ "lgd_stressed" \in DOMAIN r => InUnit(r["lgd_stressed"])

\* a stress result, after calibration moved a scaler, whose PD hit the cap and
\* whose LGD hit 1
C1_Witness ==
    /\ Returned("run_stress_scenario")
    /\ pd_scalers[1] # Fresh
    /\ \E k \in DOMAIN Rows(1) :
        /\ Rows(1)[k]["pd_stressed"] = pd_cap
        /\ Rows(1)[k]["lgd_stressed"] = RInt(1)
        /\ Rows(1)[k]["lgd"] # RInt(1)

\* C2: two instances built with the same seed and driven through the same calls
\* return identical tables at every step and hold identical calibration state.
C2_Determinism ==
    /\ result[1] = result[2]
    /\ pd_scalers[1] = pd_scalers[2]
    /\ rng[1] = rng[2]

\* C3: calibrate_pd (segment, pd_estimate, default_flag) and score_portfolio
\* (account_id, segment, ead, lgd, pd_estimate) raise exactly when a required
\* column is absent, listing exactly the absent required names in sorted order.
C3_Required ==
    IF call.op = "calibrate_pd" THEN {"segment", "pd_estimate", "default_flag"}
    ELSE {"account_id", "segment", "ead", "lgd", "pd_estimate"}
C3_Absent == C3_Required \ Range(call.frame[1].columns)
C3_MissingColumns ==
    call.op \in {"calibrate_pd", "score_portfolio"} =>
        LET listed == result[1].error.missing
        IN  /\ C3_Absent = {} => result[1].status = "ok"
            /\ C3_Absent # {} =>
                /\ result[1].status = "raised"
                /\ Range(listed) = C3_Absent
                /\ Len(listed) = Cardinality(C3_Absent)
                /\ \A a, b \in DOMAIN listed : a < b => StrLess(listed[a], listed[b])

\* score_portfolio raised on a table lacking two required columns
C3_Witness ==
    /\ call.op = "score_portfolio"
    /\ result[1].status = "raised"
    /\ Len(result[1].error.missing) >= 2
    /\ Range(call.frame[1].columns) \ C3_Required # {}

\* C4: a successful calibrate_pd stores, for every segment of the panel, the
\* scaler it returns in that segment's summary row, and leaves every other entry
\* as it was; so each entry is the scaler of the latest summary row returned for
\* its segment, or 1.0 when there was none.
C4_LatestOr1 ==
    \A seg \in DOMAIN pd_scalers[1] :
        pd_scalers[1][seg] = IF seg \in DOMAIN calibrated THEN calibrated[seg] ELSE RInt(1)
C4_Step ==
    (call'.op = "calibrate_pd" /\ result'[1].status = "ok") =>
        LET history == call'.frame[1].rows
            present == {history[k]["segment"] : k \in DOMAIN history}
            summary == result'[1].rows
        IN  /\ DOMAIN pd_scalers'[1] = DOMAIN pd_scalers[1] \cup present
            /\ {summary[k].segment : k \in DOMAIN summary} = present
            /\ \A k \in DOMAIN summary : pd_scalers'[1][summary[k].segment] = summary[k].pd_scaler
            /\ \A seg \in DOMAIN pd_scalers[1] \ present : pd_scalers'[1][seg] = pd_scalers[1][seg]
C4_Overwrite == [][C4_Step /\ C4_LatestOr1']_vars

\* a calibration of a panel without Prime, returned while Prime keeps a scaler
\* an earlier calibration gave it
C4_Witness ==
    /\ Returned("calibrate_pd")
    /\ Rows(1) # << >>
    /\ \A k \in DOMAIN call.frame[1].rows : call.frame[1].rows[k]["segment"] # "Prime"
    /\ pd_scalers[1]["Prime"] # RInt(1)

\* C5: every configured segment starts at 1.0, and only a calibrate_pd call that
\* does not raise changes a scaler.
C5_Step ==
    (call'.op # "calibrate_pd" \/ result'[1].status = "raised") => pd_scalers' = pd_scalers
C5_OnlyCalibrate == pd_scalers[1] = Fresh /\ [][C5_Step]_vars

\* a calibrate_pd call that raised, on an instance calibrated before
C5_Witness ==
    /\ call.op = "calibrate_pd"
    /\ result[1].status = "raised"
    /\ pd_scalers[1] # Fresh

\* C6 as claimed: under pd_multiplier = 1.0, lgd_shift = 0.0, macro_shock = 0.0
\* every row's expected_loss_stressed equals the expected_loss score_portfolio
\* gives that row.
C6_Neutral ==
    /\ Returned("run_stress_scenario")
    /\ call.scenario =
           [pd_multiplier |-> RInt(1), lgd_shift |-> RInt(0), macro_shock |-> Some(RInt(0))]
C6_SameLoss ==
    LET scored == score_portfolio(pd_scalers[1], call.frame[1])
    IN  \A k \in DOMAIN Rows(1) :
            Rows(1)[k]["expected_loss_stressed"] = scored.rows[k]["expected_loss"]
C6_StressIdentity == C6_Neutral => C6_SameLoss

\* C6 amended: the same, for portfolios whose lgd values all lie in [0, 1].
C6_LgdInUnit == \A k \in DOMAIN call.frame[1].rows : InUnit(call.frame[1].rows[k]["lgd"])
C6_StressIdentityUnitLgd == (C6_Neutral /\ C6_LgdInUnit) => C6_SameLoss

\* a neutral stress of a non-empty portfolio with lgd in [0, 1], on an instance
\* whose scalers calibration has moved
C6_Witness ==
    /\ C6_Neutral
    /\ C6_LgdInUnit
    /\ Rows(1) # << >>
    /\ pd_scalers[1] # Fresh

\* C7 as claimed: generate_historical_data(periods, accounts_per_period) returns
\* periods * accounts_per_period rows, period i holding rows
\* (i-1)*accounts_per_period+1 .. i*accounts_per_period, account ids restarting
\* at ACC-000000 in each period, for all periods >= 0.
C7_PanelShape ==
    call.op = "generate_historical_data" =>
        /\ result[1].status = "ok"
        /\ Len(Rows(1)) = call.periods * call.num_accounts
        /\ \A j \in DOMAIN Rows(1) :
            /\ Rows(1)[j]["period"] = ((j - 1) \div call.num_accounts) + 1
            /\ Rows(1)[j]["account_id"] =
                   [prefix |-> "ACC-",
                    digits |-> <<0, 0, 0, 0, 0, (j - 1) % call.num_accounts>>]

\* C8: score_portfolio does not fail on a segment without a calibration entry:
\* such a row gets pd_calibrated = clamp(pd_estimate), a row of a known segment
\* gets clamp(pd_estimate * stored scaler).
C8_Clamp(x) == RMin(RMax(x, pd_floor), pd_cap)
C8_UnknownSegment ==
    (call.op = "score_portfolio" /\ C3_Absent = {}) =>
        /\ result[1].status = "ok"
        /\ Len(Rows(1)) = Len(call.frame[1].rows)
        /\ \A k \in DOMAIN Rows(1) :
            LET r == call.frame[1].rows[k]
                seg == r["segment"]
            IN  Rows(1)[k]["pd_calibrated"] =
                    IF seg \in DOMAIN pd_scalers[1]
                    THEN C8_Clamp(RMul(r["pd_estimate"], pd_scalers[1][seg]))
                    ELSE C8_Clamp(r["pd_estimate"])

\* a scored portfolio with a row of a segment that has no entry beside a row of
\* a segment whose scaler calibration has moved
C8_Witness ==
    /\ Returned("score_portfolio")
    /\ \E k \in DOMAIN Rows(1) :
        /\ Rows(1)[k]["segment"] \notin DOMAIN pd_scalers[1]
    /\ \E k \in DOMAIN Rows(1) :
        /\ Rows(1)[k]["segment"] \in DOMAIN pd_scalers[1]
        /\ pd_scalers[1][Rows(1)[k]["segment"]] # RInt(1)

\* C9: a segment whose observed default rate equals its expected PD gets scaler
\* exactly 1.0, returned and stored, also when both are 0.
C9_PerfectPrediction ==
    Returned("calibrate_pd") =>
        \A k \in DOMAIN Rows(1) :
            Rows(1)[k]["observed_default_rate"] = Rows(1)[k]["expected_pd"] =>
                /\ Rows(1)[k]["pd_scaler"] = RInt(1)
                /\ pd_scalers[1][Rows(1)[k]["segment"]] = RInt(1)

\* a calibration that returned a segment with both rates 0 and one with both
\* rates equal and positive
C9_Witness ==
    /\ Returned("calibrate_pd")
    /\ \E k \in DOMAIN Rows(1) :
        /\ Rows(1)[k]["observed_default_rate"] = RInt(0)
        /\ Rows(1)[k]["expected_pd"] = RInt(0)
    /\ \E k \in DOMAIN Rows(1) :
        /\ Rows(1)[k]["observed_default_rate"] = Rows(1)[k]["expected_pd"]
        /\ Rows(1)[k]["expected_pd"] # RInt(0)

\* C10: every stored scaler lies in [0.25, 4.0] and every configured segment
\* keeps an entry.
C10_ScalerRange ==
    /\ Range(segments) \subseteq DOMAIN pd_scalers[1]
    /\ \A seg \in DOMAIN pd_scalers[1] :
        RLe(Rat(1, 4), pd_scalers[1][seg]) /\ RLe(pd_scalers[1][seg], RInt(4))

\* scalers at both ends of the range, and an entry for an unconfigured segment
C10_Witness ==
    /\ \E seg \in DOMAIN pd_scalers[1] : pd_scalers[1][seg] = Rat(1, 4)
    /\ \E seg \in DOMAIN pd_scalers[1] : pd_scalers[1][seg] = RInt(4)
    /\ DOMAIN pd_scalers[1] # Range(segments)

====
